---------------------------- MODULE Spec2Model ----------------------------
(***************************************************************************)
(* semver-tag-sync-action: a model of Action.Run / Action.syncTag and of   *)
(* the pure helpers they call (extractTagFromRef, ParseSemVer,             *)
(* parseRepository), run against a remote ref repository reached through   *)
(* the GitHubClient interface (GetRef, CreateRef, UpdateRef).              *)
(*                                                                         *)
(* Go strings that the code inspects (refs, tags, repository names) are    *)
(* sequences of one-character strings, so that prefix tests, splitting,    *)
(* regular-expression matching and Sprintf are computed, not assumed.      *)
(* Commits are numbered 1..NumCommits; a larger number is a descendant.    *)
(***************************************************************************)
EXTENDS Integers, Sequences, FiniteSets, TLC

\* ------------------------------------------------------------------------
\* Bounds of the model
\* ------------------------------------------------------------------------

\* Number of distinct commits the remote and the configuration may name.
NumCommits == 2

Commits == 1..NumCommits

\* The value of a ref that does not exist on the remote.
Absent == 0

\* The longest run of digits in a numeric component of a tag that is tried.
MaxDigits == 2

\* The longest repository string that is tried.
MaxRepoLen == 4

\* ------------------------------------------------------------------------
\* Program constants
\* ------------------------------------------------------------------------

StatusNotFound == 404

StatusOK == 200

StatusCreated == 201

StatusForbidden == 403

\* ------------------------------------------------------------------------
\* Strings
\* ------------------------------------------------------------------------

Digits == {"0", "1", "2", "3", "4", "5", "6", "7", "8", "9"}

\* strings.HasPrefix
HasPrefix(s, p) == Len(s) >= Len(p) /\ SubSeq(s, 1, Len(p)) = p

\* strings.TrimPrefix
TrimPrefix(s, p) == IF HasPrefix(s, p) THEN SubSeq(s, Len(p) + 1, Len(s)) ELSE s

\* strings.Split(s, sep) for a one-character separator: the segments between
\* the separators, empty segments included (Split("", "/") is [""]).
RECURSIVE SplitFrom(_, _, _, _)
SplitFrom(s, sep, i, cur) ==
    IF i > Len(s) THEN <<cur>>
    ELSE IF s[i] = sep THEN <<cur>> \o SplitFrom(s, sep, i + 1, <<>>)
    ELSE SplitFrom(s, sep, i + 1, Append(cur, s[i]))

Split(s, sep) == SplitFrom(s, sep, 1, <<>>)

\* The index just after the longest run of decimal digits starting at i.
RECURSIVE SkipDigits(_, _)
SkipDigits(s, i) ==
    IF i <= Len(s) /\ s[i] \in Digits THEN SkipDigits(s, i + 1) ELSE i

\* ------------------------------------------------------------------------
\* Errors.  An error is a chain of layers, outermost first: fmt.Errorf with
\* %w puts a layer in front of the error it wraps.  nil is the empty chain.
\* ------------------------------------------------------------------------

Nil == <<>>

Layer(msg, arg) == [msg |-> msg, arg |-> arg]

NewError(msg, arg) == <<Layer(msg, arg)>>

Wrap(msg, arg, err) == <<Layer(msg, arg)>> \o err

\* ------------------------------------------------------------------------
\* github.go
\* ------------------------------------------------------------------------

RefsTagsPrefix == <<"r", "e", "f", "s", "/", "t", "a", "g", "s", "/">>

TagsPrefix == <<"t", "a", "g", "s", "/">>

\* A variant of extractTagFromRef that takes any ref under refs/.
extractTagFromRef_AnyRefs(ref) ==
    IF ~HasPrefix(ref, <<"r", "e", "f", "s", "/">>)
    THEN [tag |-> <<>>, err |-> NewError("ref is not a tag", ref)]
    ELSE [tag |-> TrimPrefix(ref, RefsTagsPrefix), err |-> Nil]

\* extractTagFromRef: (tag, err)
extractTagFromRef(ref) ==
    IF ~HasPrefix(ref, RefsTagsPrefix)
    THEN [tag |-> <<>>, err |-> NewError("ref is not a tag", ref)]
    ELSE [tag |-> TrimPrefix(ref, RefsTagsPrefix), err |-> Nil]

\* A variant of parseRepository without the checks for empty segments.
parseRepository_NoEmptyCheck(repo) ==
    LET parts == Split(repo, "/") IN
    IF Len(parts) # 2
    THEN [owner |-> <<>>, name |-> <<>>,
          err |-> NewError("invalid repository format", repo)]
    ELSE [owner |-> parts[1], name |-> parts[2], err |-> Nil]

\* A variant of parseRepository that only asks for a separator.
parseRepository_Lenient(repo) ==
    LET parts == Split(repo, "/") IN
    IF Len(parts) < 2
    THEN [owner |-> <<>>, name |-> <<>>,
          err |-> NewError("invalid repository format", repo)]
    ELSE [owner |-> parts[1], name |-> parts[2], err |-> Nil]

\* parseRepository: (owner, name, err)
parseRepository(repo) ==
    LET parts == Split(repo, "/") IN
    IF Len(parts) # 2 \/ parts[1] = <<>> \/ parts[2] = <<>>
    THEN [owner |-> <<>>, name |-> <<>>,
          err |-> NewError("invalid repository format", repo)]
    ELSE [owner |-> parts[1], name |-> parts[2], err |-> Nil]

\* ------------------------------------------------------------------------
\* semver.go
\* ------------------------------------------------------------------------

\* The value ParseSemVer returns beside an error: no version (a nil *SemVer).
NoSemVer ==
    [Major |-> <<>>, Minor |-> <<>>, Patch |-> <<>>, Suffix |-> <<>>,
     Full |-> <<>>, IsPrerelease |-> FALSE]

\* semverRegex.FindStringSubmatch: ^v(\d+)\.(\d+)\.(\d+)([-+].*)?$
\* \d+ is greedy and each run of digits is followed by a non-digit, so the
\* match is unique.  Without flags "." does not match a line feed and "$"
\* matches only at the end of the text.  matched = FALSE is a nil result.
semverRegexMatch(tag) ==
    LET n  == Len(tag)
        s1 == 2
        e1 == SkipDigits(tag, s1)
        s2 == e1 + 1
        e2 == SkipDigits(tag, s2)
        s3 == e2 + 1
        e3 == SkipDigits(tag, s3)
        ok == /\ n >= 1
              /\ tag[1] = "v"
              /\ e1 > s1 /\ e1 <= n /\ tag[e1] = "."
              /\ e2 > s2 /\ e2 <= n /\ tag[e2] = "."
              /\ e3 > s3
              /\ \/ e3 = n + 1
                 \/ /\ tag[e3] \in {"-", "+"}
                    /\ \A k \in (e3 + 1)..n : tag[k] # "\n"
    IN  IF ok
        THEN [matched |-> TRUE,
              g1 |-> SubSeq(tag, s1, e1 - 1),
              g2 |-> SubSeq(tag, s2, e2 - 1),
              g3 |-> SubSeq(tag, s3, e3 - 1),
              g4 |-> SubSeq(tag, e3, n)]
        ELSE [matched |-> FALSE, g1 |-> <<>>, g2 |-> <<>>, g3 |-> <<>>,
              g4 |-> <<>>]

\* A variant of ParseSemVer that looks for the hyphen anywhere in the suffix.
ParseSemVer_HyphenAnywhere(tag) ==
    LET matches == semverRegexMatch(tag) IN
    IF ~matches.matched
    THEN [v |-> NoSemVer,
          err |-> NewError("tag does not match semantic versioning format", tag)]
    ELSE [v |-> [Major |-> matches.g1, Minor |-> matches.g2,
                 Patch |-> matches.g3, Suffix |-> matches.g4,
                 Full |-> tag,
                 IsPrerelease |-> \E k \in DOMAIN matches.g4 :
                                      matches.g4[k] = "-"],
          err |-> Nil]

\* A string of digits without its leading zeros.
RECURSIVE StripZeros(_)
StripZeros(d) == IF Len(d) > 1 /\ d[1] = "0" THEN StripZeros(Tail(d)) ELSE d

\* A variant of ParseSemVer that reads the components as numbers.
ParseSemVer_Normalizing(tag) ==
    LET matches == semverRegexMatch(tag) IN
    IF ~matches.matched
    THEN [v |-> NoSemVer,
          err |-> NewError("tag does not match semantic versioning format", tag)]
    ELSE [v |-> [Major |-> StripZeros(matches.g1),
                 Minor |-> StripZeros(matches.g2),
                 Patch |-> StripZeros(matches.g3), Suffix |-> matches.g4,
                 Full |-> tag, IsPrerelease |-> HasPrefix(matches.g4, <<"-">>)],
          err |-> Nil]

\* A variant of ParseSemVer that takes every suffix for a prerelease.
ParseSemVer_AnySuffix(tag) ==
    LET matches == semverRegexMatch(tag) IN
    IF ~matches.matched
    THEN [v |-> NoSemVer,
          err |-> NewError("tag does not match semantic versioning format", tag)]
    ELSE [v |-> [Major |-> matches.g1, Minor |-> matches.g2,
                 Patch |-> matches.g3, Suffix |-> matches.g4,
                 Full |-> tag, IsPrerelease |-> matches.g4 # <<>>],
          err |-> Nil]

\* ParseSemVer: (*SemVer, err)
ParseSemVer(tag) ==
    LET matches == semverRegexMatch(tag) IN
    IF ~matches.matched
    THEN [v |-> NoSemVer,
          err |-> NewError("tag does not match semantic versioning format", tag)]
    ELSE LET suffix == matches.g4
             isPrerelease == HasPrefix(suffix, <<"-">>)
         IN  [v |-> [Major |-> matches.g1, Minor |-> matches.g2,
                     Patch |-> matches.g3, Suffix |-> suffix,
                     Full |-> tag, IsPrerelease |-> isPrerelease],
              err |-> Nil]

\* SemVer.MajorTag: Sprintf("v%s", s.Major)
MajorTag(s) == <<"v">> \o s.Major

\* A variant of MinorTag that goes on to the patch.
MinorTag_WithPatch(s) ==
    <<"v">> \o s.Major \o <<".">> \o s.Minor \o <<".">> \o s.Patch

\* SemVer.MinorTag: Sprintf("v%s.%s", s.Major, s.Minor)
MinorTag(s) == <<"v">> \o s.Major \o <<".">> \o s.Minor

\* ------------------------------------------------------------------------
\* The remote ref repository behind the GitHubClient interface.  A remote is
\* the map of its existing refs, fully qualified name -> commit.  Each call
\* is served at one instant; fault is what goes wrong with the call, if
\* anything: "none", an API answer of 404 or 403 whatever the refs are, a
\* transport failure (no response), or the caller's context being done (no
\* response, and every later call of that run fails the same way).
\* ------------------------------------------------------------------------

Faults == {"none", "notfound", "forbidden", "transport", "canceled"}

RefsSlash == <<"r", "e", "f", "s", "/">>

\* The client addresses "tags/v1" and "refs/tags/v1" as the same ref.
FullName(ref) == RefsSlash \o TrimPrefix(ref, RefsSlash)

\* (*github.Response, error) of a call; nilResp: the response is nil.
Response(status, err) == [nilResp |-> FALSE, status |-> status, err |-> err]

NoResponse(err) == [nilResp |-> TRUE, status |-> 0, err |-> err]

\* The response of a call that the fault decides, whatever the call is.
FaultResponse(fault) ==
    CASE fault = "notfound"  -> Response(StatusNotFound, NewError("not found", <<>>))
      [] fault = "forbidden" -> Response(StatusForbidden, NewError("forbidden", <<>>))
      [] fault = "transport" -> NoResponse(NewError("network error", <<>>))
      [] fault = "canceled"  -> NoResponse(NewError("context canceled", <<>>))

\* GitHubClient.GetRef
RemoteGetRef(rem, ref, fault) ==
    IF fault # "none" THEN FaultResponse(fault)
    ELSE IF FullName(ref) \in DOMAIN rem THEN Response(StatusOK, Nil)
    ELSE Response(StatusNotFound, NewError("not found", <<>>))

\* GitHubClient.CreateRef: [resp, rem]; an existing ref is not created again.
RemoteCreateRef(rem, createRef, fault) ==
    LET name == FullName(createRef.Ref) IN
    IF fault # "none" THEN [resp |-> FaultResponse(fault), rem |-> rem]
    ELSE IF name \in DOMAIN rem
    THEN [resp |-> Response(422, NewError("reference already exists", <<>>)),
          rem |-> rem]
    ELSE [resp |-> Response(StatusCreated, Nil),
          rem |-> (name :> createRef.SHA) @@ rem]

\* GitHubClient.UpdateRef: [resp, rem]; without force only a fast-forward
\* (a move to a descendant commit) is accepted.
RemoteUpdateRef(rem, ref, updateRef, fault) ==
    LET name == FullName(ref) IN
    IF fault # "none" THEN [resp |-> FaultResponse(fault), rem |-> rem]
    ELSE IF name \notin DOMAIN rem
    THEN [resp |-> Response(422, NewError("reference does not exist", <<>>)),
          rem |-> rem]
    ELSE IF ~updateRef.Force /\ updateRef.SHA < rem[name]
    THEN [resp |-> Response(422, NewError("update is not a fast forward", <<>>)),
          rem |-> rem]
    ELSE [resp |-> Response(StatusOK, Nil),
          rem |-> [rem EXCEPT ![name] = updateRef.SHA]]

\* ------------------------------------------------------------------------
\* Inputs: the configurations a run is started with
\* ------------------------------------------------------------------------

RefV123 == RefsTagsPrefix \o <<"v", "1", ".", "2", ".", "3">>

RefV124 == RefsTagsPrefix \o <<"v", "1", ".", "2", ".", "4">>

RefV123Pre == RefsTagsPrefix \o <<"v", "1", ".", "2", ".", "3", "-", "b">>

RefV123Build == RefsTagsPrefix \o <<"v", "1", ".", "2", ".", "3", "+", "b">>

RefV10230 == RefsTagsPrefix \o <<"v", "1", "0", ".", "2", ".", "3", "0">>

RefV12 == RefsTagsPrefix \o <<"v", "1", ".", "2">>

RefHeadsMain == <<"r", "e", "f", "s", "/", "h", "e", "a", "d", "s", "/", "m">>

GitRefs == {RefV123, RefV124, RefV123Pre, RefV123Build, RefV10230, RefV12,
            RefHeadsMain}

GitHubRepos == {<<"o", "/", "r">>, <<"o", "/">>, <<"o", "/", "r", "/", "x">>}

Configs ==
    [GitHubRepo : GitHubRepos, GitRef : GitRefs, CommitSHA : Commits,
     SyncMajor : BOOLEAN, SyncMinor : BOOLEAN, SkipPrereleases : BOOLEAN,
     DryRun : BOOLEAN]

\* The rolling refs a push of gitRef is about: the refs whose state on the
\* remote is arbitrary when the run starts.
RollingRefsOf(gitRef) ==
    IF gitRef = RefV10230
    THEN {RefsTagsPrefix \o <<"v", "1", "0">>,
          RefsTagsPrefix \o <<"v", "1", "0", ".", "2">>}
    ELSE {RefsTagsPrefix \o <<"v", "1">>,
          RefsTagsPrefix \o <<"v", "1", ".", "2">>}

\* The remotes a run for cfg may meet: the pushed ref and a branch exist, and
\* each rolling ref is absent or points at any commit.
RollingStates(gitRef) == [RollingRefsOf(gitRef) -> {Absent} \cup Commits]

\* The remote of a run for cfg whose rolling refs are as f says.
RemoteWith(cfg, f) ==
    LET fixed == (cfg.GitRef :> cfg.CommitSHA) @@ (RefHeadsMain :> 1)
    IN  [n \in {x \in DOMAIN f : f[x] # Absent} \cup DOMAIN fixed |->
            IF n \in DOMAIN fixed THEN fixed[n] ELSE f[n]]

InitialRemotes(cfg) == {RemoteWith(cfg, f) : f \in RollingStates(cfg.GitRef)}

\* ------------------------------------------------------------------------
\* State
\* ------------------------------------------------------------------------

Runs == {1, 2}

VARIABLES
    mode,        \* how the runs relate: "single" (run 1 alone), "twin",
                 \* "rerun", "race"; "main": run 1 under main; or "pure": one
                 \* helper function called alone
    config,      \* config[r]: Action.config of run r
    remote,      \* remote[w]: the refs of remote w
    remote0,     \* remote0[w]: the refs of remote w when the runs started
    pc,          \* pc[r]: "off", "start", the remote call run r makes next, "done"
    cur,         \* cur[r]: the rolling tag being synced: "major", "minor", "none"
    semver,      \* semver[r]: Run's local semver
    repoId,      \* repoId[r]: Run's locals owner and repo
    syncErrors,  \* syncErrors[r]: Run's local syncErrors
    result,      \* result[r]: what Run returned
    calls,       \* calls[r]: the remote calls run r has made, in order
    ctxDone,     \* ctxDone[r]: run r has seen its context done
    fn,          \* the helper function called alone, "none" if there is none
    arg,         \* its argument
    ret          \* <<>> before it returns, then <<what it returned>>; under
                 \* main, <<the exit status of the process>> once it has exited

vars == <<mode, config, remote, remote0, pc, cur, semver, repoId, syncErrors, result,
          calls, ctxDone, fn, arg, ret>>

\* What Run returned: nothing yet, nil, one error as it is, or errors.Join.
Running == [kind |-> "running", errs |-> <<>>]

ReturnNil == [kind |-> "nil", errs |-> <<>>]

\* A variant of ReturnError that wraps the error the way syncTag's are.
ReturnError_Wrapped(err) ==
    [kind |-> "error", errs |-> <<Wrap("failed to sync tag", <<>>, err)>>]

ReturnError(err) == [kind |-> "error", errs |-> <<err>>]

Join(errs) == [kind |-> "join", errs |-> errs]

NoRepo == [owner |-> <<>>, name |-> <<>>]

\* The remote run r talks to: its own, or in a rerun or a race the one of
\* run 1.
World(r) == IF mode \in {"rerun", "race"} THEN 1 ELSE r

\* ------------------------------------------------------------------------
\* action.go: the decisions of Run and syncTag
\* ------------------------------------------------------------------------

\* A variant of SkipsPrerelease that reads the switch the wrong way round.
SkipsPrerelease_Inverted(v, cfg) == v.IsPrerelease /\ ~cfg.SkipPrereleases

\* Run: "if semver.IsPrerelease && a.config.SkipPrereleases"
SkipsPrerelease(v, cfg) == v.IsPrerelease /\ cfg.SkipPrereleases

\* A variant of Finish that fails only when every reconciliation failed.
Finish_NilOnPartial(errs) ==
    [pc |-> "done", cur |-> "none",
     result |-> IF Len(errs) > 1 THEN Join(errs) ELSE ReturnNil]

\* A variant of Finish that returns the first collected error only.
Finish_FirstOnly(errs) ==
    [pc |-> "done", cur |-> "none",
     result |-> IF Len(errs) > 0 THEN Join(<<errs[1]>>) ELSE ReturnNil]

\* Run's end: errors.Join of the collected errors, or nil.
Finish(errs) ==
    [pc |-> "done", cur |-> "none",
     result |-> IF Len(errs) > 0 THEN Join(errs) ELSE ReturnNil]

\* A variant of SyncMinorNext that gives up once the major tag has failed.
SyncMinorNext_StopOnError(cfg, errs) ==
    IF cfg.SyncMinor /\ Len(errs) = 0
    THEN [pc |-> "GetRef", cur |-> "minor", result |-> Running]
    ELSE Finish(errs)

\* Run after the major block: "if a.config.SyncMinor", whatever errs holds.
SyncMinorNext(cfg, errs) ==
    IF cfg.SyncMinor
    THEN [pc |-> "GetRef", cur |-> "minor", result |-> Running]
    ELSE Finish(errs)

\* A variant of SyncMajorNext that checks the switches as Validate does.
SyncMajorNext_ChecksSwitches(cfg, errs) ==
    IF ~cfg.SyncMajor /\ ~cfg.SyncMinor
    THEN [pc |-> "done", cur |-> "none",
          result |-> ReturnError(NewError(
              "at least one of --sync-major or --sync-minor must be enabled",
              <<>>))]
    ELSE IF cfg.SyncMajor
    THEN [pc |-> "GetRef", cur |-> "major", result |-> Running]
    ELSE SyncMinorNext(cfg, errs)

\* A variant of SyncMajorNext that does not look at the switch.
SyncMajorNext_Always(cfg, errs) ==
    [pc |-> "GetRef", cur |-> "major", result |-> Running]

\* Run after the parsing steps: "if a.config.SyncMajor".
SyncMajorNext(cfg, errs) ==
    IF cfg.SyncMajor
    THEN [pc |-> "GetRef", cur |-> "major", result |-> Running]
    ELSE SyncMinorNext(cfg, errs)

\* A variant of AfterSyncTag that tries a tag again until it succeeds.
AfterSyncTag_RetryUntilDone(cfg, kind, errs) ==
    IF Len(errs) > 0
    THEN [pc |-> "GetRef", cur |-> kind, result |-> Running]
    ELSE IF kind = "major" THEN SyncMinorNext(cfg, errs) ELSE Finish(errs)

\* A variant of AfterSyncTag that tries a failed major tag a second time.
AfterSyncTag_RetryOnce(cfg, kind, errs) ==
    IF kind = "major" /\ Len(errs) = 1 /\ Len(calls[1]) < 3
    THEN [pc |-> "GetRef", cur |-> "major", result |-> Running]
    ELSE IF kind = "major" THEN SyncMinorNext(cfg, errs) ELSE Finish(errs)

\* Where Run goes on when syncTag has returned for the tag of kind.
AfterSyncTag(cfg, kind, errs) ==
    IF kind = "major" THEN SyncMinorNext(cfg, errs) ELSE Finish(errs)

\* A variant of Collect that drops the error.
Collect_Swallow(errs, kind, tag, err) == errs

\* A variant of Collect that formats the cause with %v: the text of a new
\* error, the cause itself no longer wrapped.
Collect_NoWrap(errs, kind, tag, err) ==
    IF err # Nil
    THEN Append(errs, NewError(IF kind = "major" THEN "failed to sync major tag"
                                                 ELSE "failed to sync minor tag",
                               tag))
    ELSE errs

\* Run: "if err := a.syncTag(...); err != nil { syncErrors = append(...) }"
Collect(errs, kind, tag, err) ==
    IF err # Nil
    THEN Append(errs, Wrap(IF kind = "major" THEN "failed to sync major tag"
                                             ELSE "failed to sync minor tag",
                           tag, err))
    ELSE errs

\* A variant of ProbeFails that lets a dry run pass whatever the probe says.
ProbeFails_NotInDryRun(resp) ==
    /\ ~config[1].DryRun
    /\ resp.err # Nil /\ (resp.nilResp \/ resp.status # StatusNotFound)

\* A variant of ProbeFails that takes a nil response for "not found".
ProbeFails_NilIsAbsent(resp) ==
    resp.err # Nil /\ ~resp.nilResp /\ resp.status # StatusNotFound

\* syncTag: "if resp == nil || resp.StatusCode != http.StatusNotFound", under
\* "if err != nil": the probe's failure is reported, not taken for absence.
ProbeFails(resp) ==
    resp.err # Nil /\ (resp.nilResp \/ resp.status # StatusNotFound)

\* A variant of TagExists that keeps the answer of the run's first probe.
TagExists_FirstProbe(resp) ==
    IF calls[1] = <<>> THEN resp.err = Nil ELSE calls[1][1].resp.err = Nil

\* A variant of TagExists with the comparison the wrong way round.
TagExists_Inverted(resp) == resp.err # Nil

\* syncTag: "tagExists := err == nil"
TagExists(resp) == resp.err = Nil

\* A variant of DryRunReturns that never returns early.
DryRunReturns_Never(cfg) == FALSE

\* syncTag: "if a.config.DryRun { ...; return nil }"
DryRunReturns(cfg) == cfg.DryRun

\* syncTag: refName := Sprintf("tags/%s", tag)
RefName(tag) == TagsPrefix \o tag

\* syncTag: fullRefName := Sprintf("refs/tags/%s", tag)
FullRefName(tag) == RefsTagsPrefix \o tag

\* A variant of UpdateRefRequest that leaves Force unset.
UpdateRefRequest_NoForce(cfg) == [SHA |-> cfg.CommitSHA, Force |-> FALSE]

\* syncTag: github.UpdateRef{SHA: a.config.CommitSHA, Force: github.Ptr(true)}
UpdateRefRequest(cfg) == [SHA |-> cfg.CommitSHA, Force |-> TRUE]

\* A variant of CreateRefRequest that passes refName for fullRefName.
CreateRefRequest_ShortRef(cfg, tag) == [Ref |-> RefName(tag), SHA |-> cfg.CommitSHA]

\* syncTag: github.CreateRef{Ref: fullRefName, SHA: a.config.CommitSHA}
CreateRefRequest(cfg, tag) == [Ref |-> FullRefName(tag), SHA |-> cfg.CommitSHA]

\* A variant of TagOf that passes the major tag in the minor block too.
TagOf_MajorTwice(kind, v) == MajorTag(v)

\* A variant of TagOf with the two blocks of Run exchanged.
TagOf_Swapped(kind, v) == IF kind = "major" THEN MinorTag(v) ELSE MajorTag(v)

\* The tag Run passes to syncTag: semver.MajorTag() or semver.MinorTag().
TagOf(kind, v) == IF kind = "major" THEN MajorTag(v) ELSE MinorTag(v)

\* ------------------------------------------------------------------------
\* Steps.  A step of run r is the code from one remote call to the next: the
\* call, served by the remote, and all Run and syncTag do with its result.
\* ------------------------------------------------------------------------

\* One entry of calls[r].
Call(verb, kind, repo, ref, sha, force, fault, resp) ==
    [verb |-> verb, kind |-> kind, owner |-> repo.owner, repo |-> repo.name,
     ref |-> ref, sha |-> sha, force |-> force, fault |-> fault,
     resp |-> resp]

\* Run 2 of a twin pair or of a rerun starts when run 1 has returned.
MayStep(r) == (mode \in {"twin", "rerun"} /\ r = 2) => pc[1] = "done"

\* What may go wrong with the next call of run r.  A done context stays
\* done; run 2 of a twin pair meets what run 1 met, call by call; the remote
\* of a rerun or of a race is faithful: it serves every call.
FaultsFor(r) ==
    LET base == IF ctxDone[r] THEN {"canceled"}
                ELSE IF mode \in {"rerun", "race"} THEN {"none"}
                ELSE Faults
        k    == Len(calls[r]) + 1
    IN  IF mode = "twin" /\ r = 2 /\ k <= Len(calls[1])
        THEN base \cap {calls[1][k].fault}
        ELSE base

\* Run moves on: to the next remote call, or to its return.
Goto(r, nxt, errs) ==
    /\ pc' = [pc EXCEPT ![r] = nxt.pc]
    /\ cur' = [cur EXCEPT ![r] = nxt.cur]
    /\ result' = [result EXCEPT ![r] = nxt.result]
    /\ syncErrors' = [syncErrors EXCEPT ![r] = errs]

\* A return of Run before any reconciliation.
Return(r, res) ==
    Goto(r, [pc |-> "done", cur |-> "none", result |-> res], syncErrors[r])

\* syncTag returns err to Run, which collects it and goes on.
SyncTagReturns(r, err) ==
    LET errs == Collect(syncErrors[r], cur[r], TagOf(cur[r], semver[r]), err)
    IN  Goto(r, AfterSyncTag(config[r], cur[r], errs), errs)

\* A variant of RunBegin that parses the repository before it decides on
\* skipping a prerelease.
RunBegin_RepoFirst(r) ==
    /\ pc[r] = "start"
    /\ MayStep(r)
    /\ LET cfg == config[r]
           ex  == extractTagFromRef(cfg.GitRef)
           ps  == ParseSemVer(ex.tag)
           pr  == parseRepository(cfg.GitHubRepo)
       IN  IF ex.err # Nil
           THEN Return(r, ReturnError(ex.err)) /\ UNCHANGED <<semver, repoId>>
           ELSE IF ps.err # Nil
           THEN Return(r, ReturnError(ps.err)) /\ UNCHANGED <<semver, repoId>>
           ELSE IF pr.err # Nil
           THEN /\ Return(r, ReturnError(pr.err))
                /\ semver' = [semver EXCEPT ![r] = ps.v]
                /\ UNCHANGED repoId
           ELSE IF SkipsPrerelease(ps.v, cfg)
           THEN /\ Return(r, ReturnNil)
                /\ semver' = [semver EXCEPT ![r] = ps.v]
                /\ repoId' = [repoId EXCEPT
                                ![r] = [owner |-> pr.owner, name |-> pr.name]]
           ELSE /\ Goto(r, SyncMajorNext(cfg, <<>>), <<>>)
                /\ semver' = [semver EXCEPT ![r] = ps.v]
                /\ repoId' = [repoId EXCEPT
                                ![r] = [owner |-> pr.owner, name |-> pr.name]]
    /\ UNCHANGED <<mode, config, remote, remote0, calls, ctxDone, fn, arg, ret>>

\* Run from its entry to the first remote call, or to its return.
RunBegin(r) ==
    /\ pc[r] = "start"
    /\ MayStep(r)
    /\ LET cfg == config[r]
           ex  == extractTagFromRef(cfg.GitRef)
           ps  == ParseSemVer(ex.tag)
           pr  == parseRepository(cfg.GitHubRepo)
       IN  IF ex.err # Nil
           THEN Return(r, ReturnError(ex.err)) /\ UNCHANGED <<semver, repoId>>
           ELSE IF ps.err # Nil
           THEN Return(r, ReturnError(ps.err)) /\ UNCHANGED <<semver, repoId>>
           ELSE IF SkipsPrerelease(ps.v, cfg)
           THEN /\ Return(r, ReturnNil)
                /\ semver' = [semver EXCEPT ![r] = ps.v]
                /\ UNCHANGED repoId
           ELSE IF pr.err # Nil
           THEN /\ Return(r, ReturnError(pr.err))
                /\ semver' = [semver EXCEPT ![r] = ps.v]
                /\ UNCHANGED repoId
           ELSE /\ Goto(r, SyncMajorNext(cfg, <<>>), <<>>)
                /\ semver' = [semver EXCEPT ![r] = ps.v]
                /\ repoId' = [repoId EXCEPT
                                ![r] = [owner |-> pr.owner, name |-> pr.name]]
    /\ UNCHANGED <<mode, config, remote, remote0, calls, ctxDone, fn, arg, ret>>

\* syncTag's existence probe, and what follows it up to the next call.
CallGetRef(r) ==
    /\ pc[r] = "GetRef"
    /\ MayStep(r)
    /\ \E fault \in FaultsFor(r) :
         LET tag  == TagOf(cur[r], semver[r])
             resp == RemoteGetRef(remote[World(r)], RefName(tag), fault)
         IN  /\ calls' = [calls EXCEPT ![r] = Append(@,
                    Call("GetRef", cur[r], repoId[r], RefName(tag), Absent,
                         FALSE, fault, resp))]
             /\ ctxDone' = [ctxDone EXCEPT ![r] = @ \/ fault = "canceled"]
             /\ IF ProbeFails(resp)
                THEN SyncTagReturns(r,
                        Wrap("failed to check if tag exists", tag, resp.err))
                ELSE IF DryRunReturns(config[r])
                THEN SyncTagReturns(r, Nil)
                ELSE /\ pc' = [pc EXCEPT ![r] = IF TagExists(resp)
                                                THEN "UpdateRef"
                                                ELSE "CreateRef"]
                     /\ UNCHANGED <<cur, result, syncErrors>>
    /\ UNCHANGED <<mode, config, remote, remote0, semver, repoId, fn, arg, ret>>

\* syncTag's update of an existing tag, and what follows it.
CallUpdateRef(r) ==
    /\ pc[r] = "UpdateRef"
    /\ MayStep(r)
    /\ \E fault \in FaultsFor(r) :
         LET tag == TagOf(cur[r], semver[r])
             req == UpdateRefRequest(config[r])
             out == RemoteUpdateRef(remote[World(r)], RefName(tag), req, fault)
         IN  /\ calls' = [calls EXCEPT ![r] = Append(@,
                    Call("UpdateRef", cur[r], repoId[r], RefName(tag), req.SHA,
                         req.Force, fault, out.resp))]
             /\ ctxDone' = [ctxDone EXCEPT ![r] = @ \/ fault = "canceled"]
             /\ remote' = [remote EXCEPT ![World(r)] = out.rem]
             /\ IF out.resp.err # Nil
                THEN SyncTagReturns(r,
                        Wrap("failed to update tag", tag, out.resp.err))
                ELSE SyncTagReturns(r, Nil)
    /\ UNCHANGED <<mode, config, remote0, semver, repoId, fn, arg, ret>>

\* syncTag's creation of a missing tag, and what follows it.
CallCreateRef(r) ==
    /\ pc[r] = "CreateRef"
    /\ MayStep(r)
    /\ \E fault \in FaultsFor(r) :
         LET tag == TagOf(cur[r], semver[r])
             req == CreateRefRequest(config[r], tag)
             out == RemoteCreateRef(remote[World(r)], req, fault)
         IN  /\ calls' = [calls EXCEPT ![r] = Append(@,
                    Call("CreateRef", cur[r], repoId[r], req.Ref, req.SHA,
                         FALSE, fault, out.resp))]
             /\ ctxDone' = [ctxDone EXCEPT ![r] = @ \/ fault = "canceled"]
             /\ remote' = [remote EXCEPT ![World(r)] = out.rem]
             /\ IF out.resp.err # Nil
                THEN SyncTagReturns(r,
                        Wrap("failed to create tag", tag, out.resp.err))
                ELSE SyncTagReturns(r, Nil)
    /\ UNCHANGED <<mode, config, remote0, semver, repoId, fn, arg, ret>>

\* ------------------------------------------------------------------------
\* Specifications
\* ------------------------------------------------------------------------

\* The state after NewAction, before Run, of the runs in starts.
Fresh(starts) ==
    /\ pc = [r \in Runs |-> IF r \in starts THEN "start" ELSE "off"]
    /\ cur = [r \in Runs |-> "none"]
    /\ semver = [r \in Runs |-> NoSemVer]
    /\ repoId = [r \in Runs |-> NoRepo]
    /\ syncErrors = [r \in Runs |-> <<>>]
    /\ result = [r \in Runs |-> Running]
    /\ calls = [r \in Runs |-> <<>>]
    /\ ctxDone = [r \in Runs |-> FALSE]
    /\ fn = "none"
    /\ arg = <<>>
    /\ ret = <<>>

\* One run, of any configuration, against any remote.
Init ==
    /\ mode = "single"
    /\ \E cfg \in Configs : \E rem \in InitialRemotes(cfg) :
         /\ config = [r \in Runs |-> cfg]
         /\ remote = [w \in Runs |-> rem]
         /\ remote0 = remote
    /\ Fresh({1})

Next ==
    \E r \in Runs :
        \/ RunBegin(r)
        \/ CallGetRef(r)
        \/ CallUpdateRef(r)
        \/ CallCreateRef(r)

Spec == Init /\ [][Next]_vars

\* The stable tags vX.Y.Z with the major and minor of gitRef.
StableTwins(gitRef) ==
    IF gitRef = RefV10230 THEN {RefV10230} ELSE {RefV123, RefV124}

\* A twin pair: run 1 for any valid tag, then run 2 for a stable tag with the
\* same major and minor and otherwise the same configuration, each against
\* a remote of its own with the same rolling refs, run 2 meeting the faults
\* run 1 met.
InitTwin ==
    /\ mode = "twin"
    /\ \E cfg \in Configs :
         /\ extractTagFromRef(cfg.GitRef).err = Nil
         /\ ParseSemVer(extractTagFromRef(cfg.GitRef).tag).err = Nil
         /\ \E twinRef \in StableTwins(cfg.GitRef) :
            \E f \in RollingStates(cfg.GitRef) :
              /\ config = (1 :> cfg) @@ (2 :> [cfg EXCEPT !.GitRef = twinRef])
              /\ remote = [w \in Runs |-> RemoteWith(config[w], f)]
              /\ remote0 = remote
    /\ Fresh(Runs)

SpecTwin == InitTwin /\ [][Next]_vars

\* A rerun: run 1, then run 2 with the same configuration against the same
\* remote, which serves every call and which nobody else writes to.
InitRerun ==
    /\ mode = "rerun"
    /\ \E cfg \in Configs : \E rem \in InitialRemotes(cfg) :
         /\ config = [r \in Runs |-> cfg]
         /\ remote = [w \in Runs |-> rem]
         /\ remote0 = remote
    /\ Fresh(Runs)

SpecRerun == InitRerun /\ [][Next]_vars

\* A race: two pushes of different versions of one minor line, each with its
\* own commit, start a run each; the runs, neither a dry run, share the
\* remote, which serves every call at one instant, and their calls
\* interleave in any order.
RaceRefs == {RefV123, RefV124, RefV123Build}

RaceConfigs ==
    [GitHubRepo : {<<"o", "/", "r">>}, GitRef : RaceRefs, CommitSHA : Commits,
     SyncMajor : BOOLEAN, SyncMinor : BOOLEAN, SkipPrereleases : {TRUE},
     DryRun : {FALSE}]

InitRace ==
    /\ mode = "race"
    /\ \E c1, c2 \in RaceConfigs : \E f \in RollingStates(c1.GitRef) :
         /\ c1.GitRef # c2.GitRef
         /\ c1.CommitSHA # c2.CommitSHA
         /\ config = [r \in Runs |-> IF r = 1 THEN c1 ELSE c2]
         /\ remote = [w \in Runs |->
                         RemoteWith(c1, f) @@ (c2.GitRef :> c2.CommitSHA)]
         /\ remote0 = remote
    /\ Fresh(Runs)

SpecRace == InitRace /\ [][Next]_vars

\* ------------------------------------------------------------------------
\* main: the configuration is validated, then the action runs, then the
\* process exits with 0, or with 1 after a failure.  The configuration has
\* no enterprise URL, so NewGitHubClient does not fail.
\* ------------------------------------------------------------------------

\* Config.CommitSHA == ""
NoSHA == Absent

\* The configurations main may build from its flags and environment.
MainConfigs ==
    [GitHubToken : {<<>>, <<"t">>}, GitHubRepo : GitHubRepos \cup {<<>>},
     GitRef : GitRefs \cup {<<>>}, CommitSHA : Commits \cup {NoSHA},
     SyncMajor : BOOLEAN, SyncMinor : BOOLEAN, SkipPrereleases : BOOLEAN,
     DryRun : BOOLEAN]

\* The remotes main may meet: without a ref or a commit nothing was pushed.
MainRemotes(cfg) ==
    IF cfg.GitRef = <<>> \/ cfg.CommitSHA = NoSHA
    THEN {(RefHeadsMain :> 1)}
    ELSE InitialRemotes(cfg)

\* A variant of Validate without the check of the switches.
Validate_NoSwitchCheck(c) ==
    IF c.GitHubToken = <<>> THEN NewError("github token is required", <<>>)
    ELSE IF c.GitHubRepo = <<>> THEN NewError("github repo is required", <<>>)
    ELSE IF c.GitRef = <<>> THEN NewError("git ref is required", <<>>)
    ELSE IF c.CommitSHA = NoSHA THEN NewError("commit sha is required", <<>>)
    ELSE Nil

\* Config.Validate
Validate(c) ==
    IF c.GitHubToken = <<>> THEN NewError("github token is required", <<>>)
    ELSE IF c.GitHubRepo = <<>> THEN NewError("github repo is required", <<>>)
    ELSE IF c.GitRef = <<>> THEN NewError("git ref is required", <<>>)
    ELSE IF c.CommitSHA = NoSHA THEN NewError("commit sha is required", <<>>)
    ELSE IF ~c.SyncMajor /\ ~c.SyncMinor
    THEN NewError("at least one of --sync-major or --sync-minor must be enabled",
                  <<>>)
    ELSE Nil

InitMain ==
    /\ mode = "main"
    /\ \E cfg \in MainConfigs : \E rem \in MainRemotes(cfg) :
         /\ config = [r \in Runs |-> cfg]
         /\ remote = [w \in Runs |-> rem]
         /\ remote0 = remote
    /\ pc = [r \in Runs |-> IF r = 1 THEN "main" ELSE "off"]
    /\ cur = [r \in Runs |-> "none"]
    /\ semver = [r \in Runs |-> NoSemVer]
    /\ repoId = [r \in Runs |-> NoRepo]
    /\ syncErrors = [r \in Runs |-> <<>>]
    /\ result = [r \in Runs |-> Running]
    /\ calls = [r \in Runs |-> <<>>]
    /\ ctxDone = [r \in Runs |-> FALSE]
    /\ fn = "none"
    /\ arg = <<>>
    /\ ret = <<>>

\* main up to action.Run: "if err := config.Validate(); err != nil
\* { ...; os.Exit(1) }"
Main(r) ==
    /\ pc[r] = "main"
    /\ IF Validate(config[r]) # Nil
       THEN pc' = [pc EXCEPT ![r] = "exit"] /\ ret' = <<1>>
       ELSE pc' = [pc EXCEPT ![r] = "start"] /\ ret' = ret
    /\ UNCHANGED <<mode, config, remote, remote0, cur, semver, repoId,
                   syncErrors, result, calls, ctxDone, fn, arg>>

\* main after action.Run: "if err := action.Run(ctx); err != nil
\* { ...; os.Exit(1) }", or the end of main.
MainExit(r) ==
    /\ mode = "main"
    /\ pc[r] = "done"
    /\ pc' = [pc EXCEPT ![r] = "exit"]
    /\ ret' = <<IF result[r] = ReturnNil THEN 0 ELSE 1>>
    /\ UNCHANGED <<mode, config, remote, remote0, cur, semver, repoId,
                   syncErrors, result, calls, ctxDone, fn, arg>>

NextMain ==
    \E r \in Runs :
        \/ Main(r)
        \/ RunBegin(r)
        \/ CallGetRef(r)
        \/ CallUpdateRef(r)
        \/ CallCreateRef(r)
        \/ MainExit(r)

SpecMain == InitMain /\ [][NextMain]_vars

\* ------------------------------------------------------------------------
\* The helper functions called alone, as the table tests call them: one
\* function fn, one argument arg, and ret, the one-element sequence of what
\* the call returned (empty before the call).
\* ------------------------------------------------------------------------

\* All strings over alphabet of length at most n.
StringsUpTo(alphabet, n) == UNION {[1..k -> alphabet] : k \in 0..n}

\* Numeric components: none, short runs of digits with leading zeros, a letter.
Components == StringsUpTo({"0", "1"}, MaxDigits) \cup {<<"a">>}

TagPrefixes == {<<>>, <<"v">>, <<"V">>}

Separators == {<<".">>, <<>>}

Suffixes ==
    {<<>>, <<"-", "b">>, <<"+", "b">>, <<"-", "b", "+", "c">>,
     <<"+", "b", "-", "c">>, <<"-">>, <<"x">>, <<".", "4">>, <<" ">>,
     <<"-", "b", "\n">>, <<"+", "\n", "b">>}

\* The tags ParseSemVer is called with.
TagInputs ==
    {p \o a \o s1 \o b \o s2 \o c \o x :
        p \in TagPrefixes, a \in Components, s1 \in Separators,
        b \in Components, s2 \in Separators, c \in Components,
        x \in Suffixes}

RefPrefixes ==
    {RefsTagsPrefix, <<>>, <<"r", "e", "f", "s", "/", "t", "a", "g", "s">>,
     <<"R">> \o Tail(RefsTagsPrefix), <<"/">> \o RefsTagsPrefix,
     TagsPrefix, <<"r", "e", "f", "s", "/", "h", "e", "a", "d", "s", "/">>,
     <<"r", "e", "f", "s", "/", "p", "u", "l", "l", "/">>}

RefRests ==
    {<<>>, <<"m">>, <<"v", "1", ".", "2", ".", "3">>, <<"v", "1">>, <<"1", "/", "m">>,
     RefsTagsPrefix, <<" ">>}

\* The refs extractTagFromRef is called with.
RefInputs == {p \o x : p \in RefPrefixes, x \in RefRests}

\* The repository strings parseRepository is called with.
RepoInputs == StringsUpTo({"o", "r", "/"}, MaxRepoLen)

\* Config{}: no run is configured.
NoConfig ==
    [GitHubRepo |-> <<>>, GitRef |-> <<>>, CommitSHA |-> Absent,
     SyncMajor |-> FALSE, SyncMinor |-> FALSE, SkipPrereleases |-> FALSE,
     DryRun |-> FALSE]

InitPure ==
    /\ mode = "pure"
    /\ config = [r \in Runs |-> NoConfig]
    /\ remote = [w \in Runs |-> <<>>]
    /\ remote0 = remote
    /\ pc = [r \in Runs |-> "off"]
    /\ cur = [r \in Runs |-> "none"]
    /\ semver = [r \in Runs |-> NoSemVer]
    /\ repoId = [r \in Runs |-> NoRepo]
    /\ syncErrors = [r \in Runs |-> <<>>]
    /\ result = [r \in Runs |-> Running]
    /\ calls = [r \in Runs |-> <<>>]
    /\ ctxDone = [r \in Runs |-> FALSE]
    /\ ret = <<>>
    /\ \/ fn = "ParseSemVer" /\ arg \in TagInputs
       \/ fn = "extractTagFromRef" /\ arg \in RefInputs
       \/ fn = "parseRepository" /\ arg \in RepoInputs

Returns(value) ==
    /\ mode = "pure"
    /\ ret = <<>>
    /\ ret' = <<value>>
    /\ UNCHANGED <<mode, config, remote, remote0, pc, cur, semver, repoId,
                   syncErrors, result, calls, ctxDone, fn, arg>>

\* ParseSemVer(arg) and, of the version it returned, MajorTag and MinorTag.
CallParseSemVer ==
    /\ fn = "ParseSemVer"
    /\ LET p == ParseSemVer(arg)
       IN  Returns([v |-> p.v, err |-> p.err,
                    majorTag |-> IF p.err = Nil THEN MajorTag(p.v) ELSE <<>>,
                    minorTag |-> IF p.err = Nil THEN MinorTag(p.v) ELSE <<>>])

CallExtractTagFromRef ==
    /\ fn = "extractTagFromRef"
    /\ Returns(extractTagFromRef(arg))

CallParseRepository ==
    /\ fn = "parseRepository"
    /\ Returns(parseRepository(arg))

NextPure == CallParseSemVer \/ CallExtractTagFromRef \/ CallParseRepository

SpecPure == InitPure /\ [][NextPure]_vars

\* ------------------------------------------------------------------------
\* What the inputs are, read off the input strings themselves
\* ------------------------------------------------------------------------

\* The inputs of the form refs/tags/vX.Y.Z[suffix].
ValidTagRefs == {RefV123, RefV124, RefV123Pre, RefV123Build, RefV10230}

\* Those whose suffix begins with "-".
PrereleaseRefs == {RefV123Pre}

\* The inputs of the form owner/name.
ValidRepos == {<<"o", "/", "r">>}

\* vX of the input ref.
ExpectedMajorTag(gitRef) ==
    IF gitRef = RefV10230 THEN <<"v", "1", "0">> ELSE <<"v", "1">>

\* vX.Y of the input ref.
ExpectedMinorTag(gitRef) ==
    IF gitRef = RefV10230 THEN <<"v", "1", "0", ".", "2">>
                          ELSE <<"v", "1", ".", "2">>

ExpectedTag(kind, gitRef) ==
    IF kind = "major" THEN ExpectedMajorTag(gitRef) ELSE ExpectedMinorTag(gitRef)

\* The run is skipped as a prerelease.
Skipped(cfg) == cfg.GitRef \in PrereleaseRefs /\ cfg.SkipPrereleases

\* Ref, tag and repository are valid and the run is not skipped.
Reconciles(cfg) ==
    cfg.GitRef \in ValidTagRefs /\ cfg.GitHubRepo \in ValidRepos /\ ~Skipped(cfg)

\* The rolling tag kinds the configuration enables.
EnabledKinds(cfg) ==
    {k \in {"major", "minor"} :
        (k = "major" /\ cfg.SyncMajor) \/ (k = "minor" /\ cfg.SyncMinor)}

\* The calls of run r with the given verb, in order.
CallsOf(r, verb) == SelectSeq(calls[r], LAMBDA c : c.verb = verb)

\* The probe answered 404.
Is404(c) == c.resp.err # Nil /\ ~c.resp.nilResp /\ c.resp.status = 404

Succeeded(c) == c.resp.err = Nil

\* ------------------------------------------------------------------------
\* Claims
\* ------------------------------------------------------------------------

C1_Case ==
    /\ pc[1] = "done"
    /\ Reconciles(config[1])
    /\ config[1].SyncMajor /\ config[1].SyncMinor /\ ~config[1].DryRun
    /\ \A i \in DOMAIN calls[1] :
         /\ calls[1][i].verb = "GetRef" => Is404(calls[1][i])
         /\ calls[1][i].verb = "CreateRef" => Succeeded(calls[1][i])

\* C1: a run for a valid non-skipped refs/tags/vX.Y.Z with both switches on
\* and dryRun off, whose probes all answer 404 and whose creates succeed,
\* returns nil having made exactly two CreateRef calls, for refs/tags/vX and
\* refs/tags/vX.Y in that order, each with the configured commit, and no
\* UpdateRef call.
C1_CreateNewTags ==
    C1_Case =>
        LET cr == CallsOf(1, "CreateRef") IN
        /\ result[1] = ReturnNil
        /\ Len(cr) = 2
        /\ cr[1].ref = RefsTagsPrefix \o ExpectedMajorTag(config[1].GitRef)
        /\ cr[2].ref = RefsTagsPrefix \o ExpectedMinorTag(config[1].GitRef)
        /\ \A i \in 1..2 : cr[i].sha = config[1].CommitSHA
        /\ CallsOf(1, "UpdateRef") = <<>>

C1_Witness ==
    /\ C1_Case
    /\ Len(CallsOf(1, "CreateRef")) = 2
    /\ config[1].GitRef = RefV10230

C2_Case ==
    /\ pc[1] = "done"
    /\ Reconciles(config[1])
    /\ config[1].SyncMajor /\ config[1].SyncMinor /\ ~config[1].DryRun
    /\ \A i \in DOMAIN calls[1] :
         calls[1][i].verb = "GetRef" => Succeeded(calls[1][i])

\* C2: such a run whose probes all succeed makes exactly two UpdateRef
\* calls, for tags/vX and tags/vX.Y, and no CreateRef call; and every
\* UpdateRef call of any run carries force = true and the configured commit,
\* and no rolling tag gets a second UpdateRef call.
C2_UpdateExistingTags ==
    LET up == CallsOf(1, "UpdateRef") IN
    /\ \A i \in DOMAIN up : up[i].force /\ up[i].sha = config[1].CommitSHA
    /\ \A i, j \in DOMAIN up : up[i].kind = up[j].kind => i = j
    /\ C2_Case =>
         /\ Len(up) = 2
         /\ up[1].ref = TagsPrefix \o ExpectedMajorTag(config[1].GitRef)
         /\ up[2].ref = TagsPrefix \o ExpectedMinorTag(config[1].GitRef)
         /\ CallsOf(1, "CreateRef") = <<>>

\* Both updates made, the first one rejected by the remote's API.
C2_Witness ==
    /\ C2_Case
    /\ Len(CallsOf(1, "UpdateRef")) = 2
    /\ ~Succeeded(CallsOf(1, "UpdateRef")[1])
    /\ Succeeded(CallsOf(1, "UpdateRef")[2])

C3_Case ==
    /\ pc[1] = "done"
    /\ result[1] = ReturnNil
    /\ ~config[1].DryRun
    /\ config[1].GitRef \in ValidTagRefs
    /\ ~Skipped(config[1])

\* C3: after a run that returned nil with dryRun off and a tag that is not
\* skipped, every enabled rolling tag exists on the remote and points at the
\* configured commit, whatever it pointed at before.
C3_TagsPointAtCommit ==
    C3_Case =>
        \A k \in EnabledKinds(config[1]) :
            LET name == RefsTagsPrefix \o ExpectedTag(k, config[1].GitRef) IN
            /\ name \in DOMAIN remote[1]
            /\ remote[1][name] = config[1].CommitSHA

\* The major tag pointed at a newer commit and was moved back; the minor
\* tag did not exist.
C3_Witness ==
    LET major == RefsTagsPrefix \o ExpectedMajorTag(config[1].GitRef)
        minor == RefsTagsPrefix \o ExpectedMinorTag(config[1].GitRef)
    IN  /\ C3_Case
        /\ config[1].SyncMajor /\ config[1].SyncMinor
        /\ major \in DOMAIN remote0[1]
        /\ remote0[1][major] > config[1].CommitSHA
        /\ minor \notin DOMAIN remote0[1]
        /\ remote[1][major] = config[1].CommitSHA

\* C4: a run for a prerelease tag with skipPrereleases on makes no remote
\* call at all, leaves the remote as it was, and returns nil.
C4_SkipPrereleases ==
    Skipped(config[1]) =>
        /\ pc[1] \in {"start", "done"}
        /\ calls[1] = <<>>
        /\ remote[1] = remote0[1]
        /\ pc[1] = "done" => result[1] = ReturnNil

C4_Witness ==
    /\ Skipped(config[1])
    /\ pc[1] = "done"
    /\ result[1] = ReturnNil
    /\ config[1].SyncMajor /\ config[1].SyncMinor /\ ~config[1].DryRun

C5_Case ==
    /\ mode = "twin"
    /\ pc[1] = "done" /\ pc[2] = "done"
    /\ ~Skipped(config[1])

\* C5: a run that is not skipped (a prerelease with skipPrereleases off, a
\* build-metadata suffix under either value of skipPrereleases, any patch
\* number) makes the same remote calls with the same results, returns the
\* same outcome and leaves the rolling refs in the same state as the run for
\* a stable tag with the same major and minor does.
C5_SuffixAndPatchIgnored ==
    C5_Case =>
        /\ calls[1] = calls[2]
        /\ result[1] = result[2]
        /\ \A n \in RollingRefsOf(config[1].GitRef) :
             /\ n \in DOMAIN remote[1] <=> n \in DOMAIN remote[2]
             /\ n \in DOMAIN remote[1] => remote[1][n] = remote[2][n]

\* v1.2.3+b with skipPrereleases on against v1.2.4: both create both tags.
C5_Witness ==
    /\ C5_Case
    /\ config[1].GitRef = RefV123Build /\ config[1].SkipPrereleases
    /\ config[2].GitRef = RefV124
    /\ Len(CallsOf(1, "CreateRef")) = 2
    /\ result[1] = ReturnNil

\* The probe neither succeeded nor answered 404.
ProbeFailed(c) == c.verb = "GetRef" /\ ~Succeeded(c) /\ ~Is404(c)

\* The create or update failed.
MutationFailed(c) == c.verb # "GetRef" /\ ~Succeeded(c)

\* The indices of the calls of run r at which the reconciliation of the tag
\* of kind k failed.
FailuresOf(r, k) ==
    {i \in DOMAIN calls[r] :
        calls[r][i].kind = k /\ (ProbeFailed(calls[r][i]) \/ MutationFailed(calls[r][i]))}

Failed(r, k) == FailuresOf(r, k) # {}

\* The kinds whose reconciliation failed, major first.
FailedKinds(r) ==
    (IF Failed(r, "major") THEN <<"major">> ELSE <<>>)
        \o (IF Failed(r, "minor") THEN <<"minor">> ELSE <<>>)

SyncTagMessage(k) ==
    IF k = "major" THEN "failed to sync major tag" ELSE "failed to sync minor tag"

\* Error e is Run's failure for the tag of kind k: it names the rolling tag
\* and wraps syncTag's error, which names the tag and wraps the error the
\* failed call of run r returned.
AttributedTo(e, r, k) ==
    LET tag == ExpectedTag(k, config[r].GitRef) IN
    /\ Len(e) >= 3
    /\ e[1] = Layer(SyncTagMessage(k), tag)
    /\ e[2].arg = tag
    /\ \E i \in FailuresOf(r, k) : SubSeq(e, 3, Len(e)) = calls[r][i].resp.err

C6_ProbesFine ==
    /\ pc[1] = "done"
    /\ config[1].GitRef \in ValidTagRefs
    /\ config[1].GitHubRepo \in ValidRepos
    /\ \A i \in DOMAIN calls[1] : Succeeded(calls[1][i]) \/ Is404(calls[1][i])

\* C6: with dryRun on, a run never calls CreateRef or UpdateRef and the
\* remote stays as it was, for every remote and every combination of the
\* switches; and a run for a valid ref and repository returns nil whenever
\* each of its probes succeeded or answered 404.
C6_DryRun ==
    config[1].DryRun =>
        /\ \A i \in DOMAIN calls[1] : calls[1][i].verb = "GetRef"
        /\ remote[1] = remote0[1]
        /\ C6_ProbesFine => result[1] = ReturnNil

\* A dry run that found one tag present and the other missing.
C6_Witness ==
    /\ config[1].DryRun
    /\ C6_ProbesFine
    /\ Len(calls[1]) = 2
    /\ Succeeded(calls[1][1])
    /\ Is404(calls[1][2])
    /\ result[1] = ReturnNil

C7_Case ==
    /\ pc[1] = "done"
    /\ Reconciles(config[1])
    /\ config[1].SyncMajor /\ config[1].SyncMinor
    /\ Failed(1, "major")

\* C7: with both switches on, when the major tag's reconciliation has failed
\* (at its probe or at its create or update), the minor tag is still
\* reconciled: after the major tag's calls comes one GetRef for tags/vX.Y
\* and, unless that probe fails or dryRun is on, the UpdateRef (probe
\* succeeded) or CreateRef (probe answered 404) for it with the configured
\* commit.
C7_MinorStillAttempted ==
    C7_Case =>
        LET minorTag == ExpectedMinorTag(config[1].GitRef)
            probes == {i \in DOMAIN calls[1] :
                         calls[1][i].kind = "minor" /\ calls[1][i].verb = "GetRef"}
            muts   == {i \in DOMAIN calls[1] :
                         calls[1][i].kind = "minor" /\ calls[1][i].verb # "GetRef"}
        IN  /\ Cardinality(probes) = 1
            /\ \A p \in probes :
                 /\ calls[1][p].ref = TagsPrefix \o minorTag
                 /\ \A i \in DOMAIN calls[1] : calls[1][i].kind = "major" => i < p
                 /\ IF ProbeFailed(calls[1][p]) \/ config[1].DryRun
                    THEN muts = {}
                    ELSE /\ muts = {p + 1}
                         /\ calls[1][p + 1].sha = config[1].CommitSHA
                         /\ FullName(calls[1][p + 1].ref) = RefsTagsPrefix \o minorTag
                         /\ calls[1][p + 1].verb =
                              IF Succeeded(calls[1][p]) THEN "UpdateRef"
                                                        ELSE "CreateRef"

\* The major tag's update was refused; the minor tag was then created.
C7_Witness ==
    /\ C7_Case
    /\ \E i \in DOMAIN calls[1] :
         calls[1][i].kind = "major" /\ calls[1][i].verb = "UpdateRef"
    /\ \E i \in DOMAIN calls[1] :
         /\ calls[1][i].kind = "minor" /\ calls[1][i].verb = "CreateRef"
         /\ Succeeded(calls[1][i])
    /\ ~Failed(1, "minor")

C8_Case == pc[1] = "done" /\ Reconciles(config[1])

\* C8: once ref, tag and repository have parsed and the run is not skipped,
\* Run returns a failure exactly if the reconciliation of an enabled tag
\* failed; the failure is errors.Join of one error per failed reconciliation,
\* major before minor, each naming its rolling tag and wrapping the error of
\* the call that failed; otherwise Run returns nil.
C8_AggregatedFailure ==
    C8_Case =>
        LET failed == FailedKinds(1) IN
        /\ \A i \in DOMAIN failed : failed[i] \in EnabledKinds(config[1])
        /\ IF failed = <<>>
           THEN result[1] = ReturnNil
           ELSE /\ result[1].kind = "join"
                /\ Len(result[1].errs) = Len(failed)
                /\ \A i \in DOMAIN failed :
                     AttributedTo(result[1].errs[i], 1, failed[i])

\* Both reconciliations failed, at different calls.
C8_Witness ==
    /\ C8_Case
    /\ FailedKinds(1) = <<"major", "minor">>
    /\ \E i \in FailuresOf(1, "major") : calls[1][i].verb = "CreateRef"
    /\ \E i \in FailuresOf(1, "minor") : calls[1][i].verb = "GetRef"
    /\ Len(result[1].errs) = 2

\* C9: a GetRef that fails with a 404 response is taken for "tag absent":
\* it is no error of the tag, and unless dryRun is on the next call is the
\* CreateRef for that tag.  A GetRef that fails with another status or with
\* no response makes the tag's reconciliation fail with an error that names
\* the tag and wraps the probe's error, and no CreateRef or UpdateRef is
\* made for that tag.
C9_ProbeClassification ==
    \A i \in DOMAIN calls[1] :
        LET c   == calls[1][i]
            tag == ExpectedTag(c.kind, config[1].GitRef)
            mine == {j \in DOMAIN calls[1] :
                        calls[1][j].kind = c.kind /\ calls[1][j].verb # "GetRef"}
        IN  c.verb = "GetRef" =>
              /\ Is404(c) =>
                   /\ \A j \in DOMAIN syncErrors[1] :
                        syncErrors[1][j][2].msg # "failed to check if tag exists"
                            \/ syncErrors[1][j][2].arg # tag
                   /\ ~config[1].DryRun =>
                        IF i = Len(calls[1])
                        THEN pc[1] = "CreateRef" /\ cur[1] = c.kind
                        ELSE /\ calls[1][i + 1].verb = "CreateRef"
                             /\ calls[1][i + 1].kind = c.kind
              /\ ProbeFailed(c) =>
                   /\ mine = {}
                   /\ \E j \in DOMAIN syncErrors[1] :
                        /\ syncErrors[1][j][1].arg = tag
                        /\ syncErrors[1][j][2] =
                             Layer("failed to check if tag exists", tag)
                        /\ SubSeq(syncErrors[1][j], 3, Len(syncErrors[1][j]))
                             = c.resp.err

\* The major probe answered 404 and the tag was created; the minor probe
\* got no response.
C9_Witness ==
    /\ pc[1] = "done"
    /\ Len(calls[1]) = 3
    /\ Is404(calls[1][1])
    /\ calls[1][2].verb = "CreateRef" /\ Succeeded(calls[1][2])
    /\ calls[1][3].verb = "GetRef" /\ calls[1][3].resp.nilResp
    /\ calls[1][3].fault = "transport"
    /\ Len(syncErrors[1]) = 1

\* A call of the major tag's reconciliation returned the cancellation.
MajorCanceledAt(i) ==
    /\ i \in DOMAIN calls[1]
    /\ calls[1][i].kind = "major"
    /\ calls[1][i].fault = "canceled"

ContextCanceled == NewError("context canceled", <<>>)

\* C10 as stated: once a call of the major tag's reconciliation has returned
\* the cancellation, no remote call for the minor tag is made.
C10_NoMinorAfterCancellation ==
    \A i, j \in DOMAIN calls[1] :
        MajorCanceledAt(i) /\ i < j => calls[1][j].kind # "minor"

C10_Case ==
    /\ pc[1] = "done"
    /\ \E i \in DOMAIN calls[1] : MajorCanceledAt(i)

\* C10 as amended: when a call of the major tag's reconciliation has
\* returned the cancellation, Run returns a failure whose first error is the
\* major tag's and wraps the cancellation; and with syncMinor on the minor
\* tag's GetRef is still made afterwards, with no create or update for the
\* minor tag when that probe returns the cancellation too.
C10_CancellationCollected ==
    C10_Case =>
        /\ result[1].kind = "join"
        /\ result[1].errs[1][1].arg = ExpectedMajorTag(config[1].GitRef)
        /\ LET e == result[1].errs[1] IN SubSeq(e, Len(e), Len(e)) = ContextCanceled
        /\ config[1].SyncMinor =>
             \E j \in DOMAIN calls[1] :
                /\ calls[1][j].kind = "minor" /\ calls[1][j].verb = "GetRef"
                /\ \A i \in DOMAIN calls[1] : MajorCanceledAt(i) => i < j
                /\ calls[1][j].fault = "canceled" => j = Len(calls[1])

\* The major tag's create was cancelled; the minor probe was made and
\* cancelled too.
C10_Witness ==
    /\ C10_Case
    /\ config[1].SyncMinor
    /\ Len(calls[1]) = 3
    /\ calls[1][2].verb = "CreateRef" /\ MajorCanceledAt(2)
    /\ calls[1][3].kind = "minor" /\ calls[1][3].fault = "canceled"
    /\ Len(result[1].errs) = 2

\* The calls of run r for the rolling tag of kind k, in order.
KindCalls(r, k) == SelectSeq(calls[r], LAMBDA c : c.kind = k)

\* Nothing went wrong between run r and the remote: each call was served.
Faithful(r) == \A i \in DOMAIN calls[r] : calls[r][i].fault = "none"

C11_Case ==
    /\ mode = "rerun"
    /\ Reconciles(config[1])
    /\ ~config[1].DryRun

\* C11: reconciling a rolling tag twice in succession with the same commit,
\* against a faithful remote with no other writer and starting from the tag
\* absent, succeeds both times: the first run probes and creates the tag,
\* the second probes and updates it with force, and after each run the tag
\* exists and points at the commit.
C11_Idempotent ==
    C11_Case =>
        \A k \in EnabledKinds(config[1]) :
            LET name == RefsTagsPrefix \o ExpectedTag(k, config[1].GitRef)
                c1   == KindCalls(1, k)
                c2   == KindCalls(2, k)
                here == name \in DOMAIN remote[1]
                          /\ remote[1][name] = config[1].CommitSHA
            IN  name \notin DOMAIN remote0[1] =>
                  /\ pc[1] = "done" /\ Faithful(1) =>
                       /\ result[1] = ReturnNil
                       /\ Len(c1) = 2
                       /\ c1[1].verb = "GetRef" /\ Is404(c1[1])
                       /\ c1[2].verb = "CreateRef" /\ Succeeded(c1[2])
                       /\ pc[2] = "start" => here
                  /\ pc[2] = "done" /\ Faithful(1) /\ Faithful(2) =>
                       /\ result[2] = ReturnNil
                       /\ Len(c2) = 2
                       /\ c2[1].verb = "GetRef" /\ Succeeded(c2[1])
                       /\ c2[2].verb = "UpdateRef" /\ Succeeded(c2[2])
                       /\ c2[2].force /\ c2[2].sha = config[1].CommitSHA
                       /\ here

\* Both rolling tags were absent, created by run 1 and updated by run 2.
C11_Witness ==
    /\ C11_Case
    /\ config[1].SyncMajor /\ config[1].SyncMinor
    /\ \A n \in RollingRefsOf(config[1].GitRef) : n \notin DOMAIN remote0[1]
    /\ pc[2] = "done" /\ Faithful(1) /\ Faithful(2)
    /\ Len(CallsOf(1, "CreateRef")) = 2
    /\ Len(CallsOf(2, "UpdateRef")) = 2
    /\ result[2] = ReturnNil

\* The input refs outside refs/tags/, and the tag refs outside the grammar.
NonTagRefs == {RefHeadsMain}

NonSemVerRefs == {RefV12}

\* The one error Run returns for an invalid ref: a single layer, nothing
\* wrapped around it.
ExpectedRefError(gitRef) ==
    IF gitRef \in NonTagRefs
    THEN <<[msg |-> "ref is not a tag", arg |-> gitRef]>>
    ELSE <<[msg |-> "tag does not match semantic versioning format",
            arg |-> SubSeq(gitRef, Len(RefsTagsPrefix) + 1, Len(gitRef))]>>

C12_Case(r) ==
    /\ mode = "single"
    /\ pc[r] # "off"
    /\ config[r].GitRef \in NonTagRefs \cup NonSemVerRefs

\* C12: when the configured ref does not begin with refs/tags/, or its tag
\* does not match the semver grammar, Run makes no remote call and returns
\* that validation error itself, with no per-tag layer around it.
C12_ValidationErrorAsIs ==
    \A r \in Runs :
        C12_Case(r) =>
            /\ calls[r] = <<>>
            /\ remote[r] = remote0[r]
            /\ pc[r] \in {"start", "done"}
            /\ pc[r] = "done" =>
                 /\ result[r].kind = "error"
                 /\ result[r].errs = <<ExpectedRefError(config[r].GitRef)>>

\* A run for refs/tags/v1.2 has returned the parser's error.
C12_Witness ==
    /\ C12_Case(1)
    /\ config[1].GitRef \in NonSemVerRefs
    /\ pc[1] = "done"
    /\ result[1].kind = "error"
    /\ Len(result[1].errs[1]) = 1

C13_Case(r) ==
    /\ mode = "single"
    /\ pc[r] # "off"
    /\ config[r].GitRef \in ValidTagRefs
    /\ ~Skipped(config[r])
    /\ config[r].GitHubRepo \notin ValidRepos

\* C13: for a valid tag that is not skipped, a repository string that is not
\* owner/name makes Run return the repository validation error, before any
\* remote call.
C13_InvalidRepository ==
    \A r \in Runs :
        C13_Case(r) =>
            /\ calls[r] = <<>>
            /\ remote[r] = remote0[r]
            /\ pc[r] \in {"start", "done"}
            /\ pc[r] = "done" =>
                 /\ result[r].kind = "error"
                 /\ result[r].errs =
                      <<<<[msg |-> "invalid repository format",
                           arg |-> config[r].GitHubRepo]>>>>

\* A run for owner/name/extra has returned the error.
C13_Witness ==
    /\ C13_Case(1)
    /\ Len(config[1].GitHubRepo) = 5
    /\ pc[1] = "done"
    /\ result[1].kind = "error"

\* The full name of the ref the i-th call of run r addresses.
CallName(r, i) == FullName(calls[r][i].ref)

C14_Case(r) ==
    /\ mode = "single"
    /\ config[r].SyncMajor /\ config[r].SyncMinor
    /\ calls[r] # <<>>

\* C14: with both switches on, every remote call addresses the major or the
\* minor rolling tag, no call for the major tag follows a call for the minor
\* tag, and every CreateRef or UpdateRef of a tag comes after a GetRef of
\* that tag.
C14_CallOrder ==
    \A r \in Runs :
        C14_Case(r) =>
            LET major == RefsTagsPrefix \o ExpectedMajorTag(config[r].GitRef)
                minor == RefsTagsPrefix \o ExpectedMinorTag(config[r].GitRef)
                n     == Len(calls[r])
            IN  /\ \A i \in 1..n : CallName(r, i) \in {major, minor}
                /\ CallName(r, 1) = major
                /\ \A i, j \in 1..n :
                     i < j => ~(CallName(r, i) = minor /\ CallName(r, j) = major)
                /\ \A i \in 1..n :
                     calls[r][i].verb \in {"CreateRef", "UpdateRef"} =>
                        \E j \in 1..(i - 1) :
                            /\ calls[r][j].verb = "GetRef"
                            /\ CallName(r, j) = CallName(r, i)

\* Probe and mutation of the major tag, then probe and mutation of the minor.
C14_Witness ==
    /\ C14_Case(1)
    /\ pc[1] = "done"
    /\ Len(calls[1]) = 4
    /\ calls[1][2].verb = "UpdateRef"
    /\ calls[1][4].verb = "CreateRef"

\* ------------------------------------------------------------------------
\* The tag grammar, stated apart from the regular expression:
\*     'v' digits '.' digits '.' digits [ ('-' | '+') anything ]
\* ------------------------------------------------------------------------

DecimalDigits(s, from, to) ==
    /\ from <= to
    /\ \A k \in from..to :
         s[k] \in {"0", "1", "2", "3", "4", "5", "6", "7", "8", "9"}

\* The ways to read s by the grammar: <<i, j, k>> with the dots at i and j
\* and the patch digits ending just before k.  There is at most one.
GrammarSplits(s) ==
    LET n == Len(s) IN
    IF n = 0 \/ s[1] # "v" THEN {}
    ELSE UNION {UNION {{<<i, j, k>> :
                            k \in {k \in (j + 2)..(n + 1) :
                                     /\ DecimalDigits(s, j + 1, k - 1)
                                     /\ k = n + 1 \/ s[k] \in {"-", "+"}}} :
                       j \in {j \in (i + 2)..n :
                                s[j] = "." /\ DecimalDigits(s, i + 1, j - 1)}} :
                i \in {i \in 3..n : s[i] = "." /\ DecimalDigits(s, 2, i - 1)}}

InGrammar(s) == GrammarSplits(s) # {}

\* The one reading of a tag of the grammar.
SplitOf(s) == CHOOSE t \in GrammarSplits(s) : TRUE

\* ParseSemVer was called and has returned.
Parsed == mode = "pure" /\ fn = "ParseSemVer" /\ ret # <<>>

Accepted == Parsed /\ ret[1].err = Nil

\* C15: ParseSemVer succeeds exactly on the strings of the grammar, whatever
\* follows the '-' or '+' of the suffix, and on failure returns an error and
\* no version.
C15_AcceptsExactlyTheGrammar ==
    Parsed =>
        /\ ret[1].err = Nil <=> InGrammar(arg)
        /\ ret[1].err # Nil => ret[1].v = NoSemVer

\* C16: for every accepted tag IsPrerelease is true exactly when the suffix,
\* what follows the patch digits, is not empty and begins with '-'.
C16_PrereleaseIffHyphenFirst ==
    Accepted =>
        LET k      == SplitOf(arg)[3]
            suffix == SubSeq(arg, k, Len(arg))
        IN  /\ InGrammar(arg)
            /\ ret[1].v.Suffix = suffix
            /\ ret[1].v.IsPrerelease <=> (suffix # <<>> /\ suffix[1] = "-")

\* v<d>.<d>.<d>-b+c is a prerelease.
C16_Witness ==
    /\ Accepted
    /\ ret[1].v.Suffix = <<"-", "b", "+", "c">>
    /\ ret[1].v.IsPrerelease

\* C17: for every accepted tag MajorTag is the tag up to its first dot and
\* MinorTag the tag up to its second dot, "v" + Major and
\* "v" + Major + "." + Minor: neither reaches the patch or the suffix.
C17_RollingTagNames ==
    Accepted =>
        LET t == SplitOf(arg) IN
        /\ InGrammar(arg)
        /\ ret[1].majorTag = SubSeq(arg, 1, t[1] - 1)
        /\ ret[1].minorTag = SubSeq(arg, 1, t[2] - 1)
        /\ ret[1].majorTag = <<"v">> \o ret[1].v.Major
        /\ ret[1].minorTag = <<"v">> \o ret[1].v.Major \o <<".">> \o ret[1].v.Minor

\* v10.01.1+b gives v10 and v10.01.
C17_Witness ==
    /\ Accepted
    /\ arg = <<"v", "1", "0", ".", "0", "1", ".", "1", "+", "b">>
    /\ ret[1].majorTag = <<"v", "1", "0">>
    /\ ret[1].minorTag = <<"v", "1", "0", ".", "0", "1">>

\* C18: for every accepted tag Major, Minor and Patch are the non-empty runs
\* of digits of the tag as written, leading zeros included, Full is the tag,
\* and "v" + Major + "." + Minor + "." + Patch + Suffix is the tag.
C18_ParsingLosesNothing ==
    Accepted =>
        LET t == SplitOf(arg)
            v == ret[1].v
        IN  /\ InGrammar(arg)
            /\ v.Major = SubSeq(arg, 2, t[1] - 1)
            /\ v.Minor = SubSeq(arg, t[1] + 1, t[2] - 1)
            /\ v.Patch = SubSeq(arg, t[2] + 1, t[3] - 1)
            /\ \A d \in {v.Major, v.Minor, v.Patch} :
                 d # <<>> /\ DecimalDigits(d, 1, Len(d))
            /\ v.Full = arg
            /\ <<"v">> \o v.Major \o <<".">> \o v.Minor \o <<".">> \o v.Patch
                  \o v.Suffix = arg

\* v01.00.01-b keeps its zeros.
C18_Witness ==
    /\ Accepted
    /\ arg = <<"v", "0", "1", ".", "0", "0", ".", "0", "1", "-", "b">>
    /\ ret[1].v.Major = <<"0", "1">>
    /\ ret[1].v.Minor = <<"0", "0">>
    /\ ret[1].v.Patch = <<"0", "1">>

\* The characters of "refs/tags/".
TagRefLiteral == <<"r", "e", "f", "s", "/", "t", "a", "g", "s", "/">>

BeginsWithTagRefLiteral(s) ==
    /\ Len(s) >= Len(TagRefLiteral)
    /\ \A k \in DOMAIN TagRefLiteral : s[k] = TagRefLiteral[k]

Extracted == mode = "pure" /\ fn = "extractTagFromRef" /\ ret # <<>>

\* C19: extractTagFromRef succeeds exactly on the refs that begin with
\* refs/tags/; on success refs/tags/ followed by the returned tag is the ref,
\* whatever the tag is; otherwise it returns an error and the empty string.
C19_ExtractTagFromRef ==
    Extracted =>
        /\ ret[1].err = Nil <=> BeginsWithTagRefLiteral(arg)
        /\ ret[1].err = Nil => TagRefLiteral \o ret[1].tag = arg
        /\ ret[1].err # Nil => ret[1].tag = <<>>

\* refs/tags/ alone is a tag ref, of the empty tag.
C19_Witness ==
    /\ Extracted
    /\ arg = TagRefLiteral
    /\ ret[1].err = Nil
    /\ ret[1].tag = <<>>

RepositoryParsed == mode = "pure" /\ fn = "parseRepository" /\ ret # <<>>

\* Exactly one '/', with something on either side of it.
OwnerSlashName(s) ==
    /\ Cardinality({k \in DOMAIN s : s[k] = "/"}) = 1
    /\ s[1] # "/"
    /\ s[Len(s)] # "/"

\* C20: parseRepository succeeds exactly on the strings with one '/' and two
\* non-empty segments; on success owner + "/" + name is the input; otherwise
\* it returns an error and empty owner and name.
C20_ParseRepository ==
    RepositoryParsed =>
        /\ ret[1].err = Nil <=> OwnerSlashName(arg)
        /\ ret[1].err = Nil =>
             /\ ret[1].owner # <<>> /\ ret[1].name # <<>>
             /\ ret[1].owner \o <<"/">> \o ret[1].name = arg
        /\ ret[1].err # Nil => ret[1].owner = <<>> /\ ret[1].name = <<>>

\* or/o is owner "or" and name "o".
C20_Witness ==
    /\ RepositoryParsed
    /\ arg = <<"o", "r", "/", "o">>
    /\ ret[1].err = Nil
    /\ ret[1].owner = <<"o", "r">>
    /\ ret[1].name = <<"o">>

\* One of the four strings is empty, or neither switch is on.
InvalidConfig(c) ==
    \/ c.GitHubToken = <<>>
    \/ c.GitHubRepo = <<>>
    \/ c.GitRef = <<>>
    \/ c.CommitSHA = NoSHA
    \/ ~(c.SyncMajor \/ c.SyncMinor)

\* main has validated the configuration of run r.
Validated(r) == mode = "main" /\ pc[r] \notin {"off", "main"}

\* main has left run r without calling Run.
ExitedBeforeRun(r) ==
    pc[r] = "exit" /\ result[r] = Running /\ calls[r] = <<>> /\ ret = <<1>>

\* C21: Validate returns an error exactly when the token, the repository, the
\* ref or the commit is empty or neither switch is on, and main exits with
\* status 1 without starting the sync exactly then.
C21_ValidateConfig ==
    \A r \in Runs :
        Validated(r) =>
            /\ Validate(config[r]) # Nil <=> InvalidConfig(config[r])
            /\ ExitedBeforeRun(r) <=> InvalidConfig(config[r])
            /\ InvalidConfig(config[r]) => remote[r] = remote0[r]

\* Everything is set but both switches are off: main has exited with 1.
C21_Witness ==
    /\ Validated(1)
    /\ config[1].GitHubToken # <<>> /\ config[1].GitHubRepo # <<>>
    /\ config[1].GitRef # <<>> /\ config[1].CommitSHA # NoSHA
    /\ ~config[1].SyncMajor /\ ~config[1].SyncMinor
    /\ ExitedBeforeRun(1)

\* The full names of the two rolling refs of run r.
MajorRef(r) == RefsTagsPrefix \o ExpectedMajorTag(config[r].GitRef)

MinorRef(r) == RefsTagsPrefix \o ExpectedMinorTag(config[r].GitRef)

\* The i-th call of run r is the given verb on the ref of full name n.
IsCall(r, i, verb, n) ==
    /\ i \in DOMAIN calls[r]
    /\ calls[r][i].verb = verb
    /\ CallName(r, i) = n

\* The call that follows the i-th call of run r is the given verb on n: made
\* already, or the one the run is about to make.
NextIs(r, i, verb, n) ==
    IF i < Len(calls[r])
    THEN IsCall(r, i + 1, verb, n)
    ELSE /\ pc[r] = verb
         /\ RefsTagsPrefix \o ExpectedTag(cur[r], config[r].GitRef) = n

C22_Case(r) ==
    /\ mode = "single"
    /\ pc[r] # "off"
    /\ Reconciles(config[r])
    /\ ~config[r].DryRun

\* Major tag present and minor tag absent, or the reverse, and every call
\* served.
C22_Mixed(r) ==
    /\ C22_Case(r)
    /\ config[r].SyncMajor /\ config[r].SyncMinor
    /\ (MajorRef(r) \in DOMAIN remote0[r]) # (MinorRef(r) \in DOMAIN remote0[r])
    /\ pc[r] = "done"
    /\ Faithful(r)

\* C22: in a run that mutates, a tag gets an UpdateRef exactly when its own
\* probe succeeded and a CreateRef exactly when its own probe answered 404,
\* whatever the other tag's probe said; from a remote with one rolling tag
\* present and the other absent the run makes exactly one UpdateRef, forced,
\* for the present one and exactly one CreateRef for the absent one.
C22_VerbFollowsOwnProbe ==
    \A r \in Runs :
        /\ C22_Case(r) =>
             \A n \in {MajorRef(r), MinorRef(r)} : \A i \in DOMAIN calls[r] :
                /\ IsCall(r, i, "UpdateRef", n) =>
                     IsCall(r, i - 1, "GetRef", n) /\ Succeeded(calls[r][i - 1])
                /\ IsCall(r, i, "CreateRef", n) =>
                     IsCall(r, i - 1, "GetRef", n) /\ Is404(calls[r][i - 1])
                /\ IsCall(r, i, "GetRef", n) /\ Succeeded(calls[r][i]) =>
                     NextIs(r, i, "UpdateRef", n)
                /\ IsCall(r, i, "GetRef", n) /\ Is404(calls[r][i]) =>
                     NextIs(r, i, "CreateRef", n)
        /\ C22_Mixed(r) =>
             LET up      == CallsOf(r, "UpdateRef")
                 cr      == CallsOf(r, "CreateRef")
                 present == IF MajorRef(r) \in DOMAIN remote0[r]
                            THEN MajorRef(r) ELSE MinorRef(r)
                 absent  == IF MajorRef(r) \in DOMAIN remote0[r]
                            THEN MinorRef(r) ELSE MajorRef(r)
             IN  /\ Len(up) = 1 /\ Len(cr) = 1
                 /\ FullName(up[1].ref) = present /\ up[1].force
                 /\ FullName(cr[1].ref) = absent
                 /\ Succeeded(up[1]) /\ Succeeded(cr[1])

\* Minor tag present, major tag absent: a create, then an update.
C22_Witness ==
    /\ C22_Mixed(1)
    /\ MinorRef(1) \in DOMAIN remote0[1]
    /\ calls[1][2].verb = "CreateRef"
    /\ calls[1][4].verb = "UpdateRef"

\* Run r has returned a failure for the rolling tag of kind k.
Reports(r, k) ==
    \E i \in DOMAIN result[r].errs :
        result[r].errs[i][1] =
            Layer(SyncTagMessage(k), ExpectedTag(k, config[r].GitRef))

\* The rolling tag kinds both racing runs reconcile.
RacedKinds == EnabledKinds(config[1]) \cap EnabledKinds(config[2])

BothDone == pc[1] = "done" /\ pc[2] = "done"

\* The i-th call of run r is a CreateRef of kind k the remote rejected because
\* the other run had created the tag after r's probe.
LostCreate(r, i, k) ==
    /\ i \in DOMAIN calls[r]
    /\ calls[r][i].verb = "CreateRef" /\ calls[r][i].kind = k
    /\ ~Succeeded(calls[r][i])

\* An upper bound on the steps run r has left: its entry, at most four
\* remote calls, none once it has returned.
StepsLeft(r) ==
    IF pc[r] \in {"done", "off", "exit"} THEN 0
    ELSE IF pc[r] \in {"start", "main"} THEN 6
    ELSE 5 - Len(calls[r])

\* Run r can take a step: it is at its entry or at a remote call, nothing
\* holds it back, and the call has an outcome.
Ready(r) ==
    /\ pc[r] \in {"start", "GetRef", "UpdateRef", "CreateRef"}
    /\ MayStep(r)
    /\ pc[r] # "start" => FaultsFor(r) # {}

\* A run that has not returned can take a step and has steps left.
CanGoOn ==
    \A r \in Runs : pc[r] \notin {"done", "off"} => Ready(r) /\ StepsLeft(r) > 0

\* Every step uses up one of the steps left.
Progress == StepsLeft(1) + StepsLeft(2) > StepsLeft(1)' + StepsLeft(2)'

C23_Safety ==
    mode = "race" =>
      /\ CanGoOn
      /\ \A k \in RacedKinds :
            LET n == RefsTagsPrefix \o ExpectedTag(k, config[1].GitRef) IN
            /\ BothDone =>
                 /\ \E r \in Runs : ~Reports(r, k)
                 /\ n \in DOMAIN remote[1]
                 /\ \E r \in Runs :
                      ~Reports(r, k) /\ remote[1][n] = config[r].CommitSHA
            /\ \A r \in Runs : \A i \in DOMAIN calls[r] :
                 LostCreate(r, i, k) =>
                    /\ \A j \in DOMAIN calls[r] : j > i => calls[r][j].kind # k
                    /\ ~(pc[r] \in {"GetRef", "UpdateRef", "CreateRef"}
                            /\ cur[r] = k)
                    /\ pc[r] = "done" => Reports(r, k)

\* C23: in every interleaving of two non-dry-run runs that reconcile the same
\* rolling tag with different commits against a remote that rejects the
\* creation of an existing ref, both runs return (until both have, one of
\* them can step, and every step uses up one of a bounded number of steps);
\* at least one of them reports no failure for the tag; once both have
\* returned the tag exists and points at the commit of a run that reported
\* no failure for it; and a run whose create was rejected makes no further
\* call for the tag and reports a failure for it.
C23_RacingRuns == []C23_Safety /\ [][Progress]_vars

\* Both runs probed the absent major tag before either created it: run 1
\* won, run 2's create was rejected.
C23_Witness ==
    /\ mode = "race"
    /\ BothDone
    /\ "major" \in RacedKinds
    /\ \E i \in DOMAIN calls[2] : LostCreate(2, i, "major")
    /\ ~Reports(1, "major") /\ Reports(2, "major")
    /\ remote[1][MajorRef(1)] = config[1].CommitSHA

\* The indices of the calls of run r for the ref of full name n with a verb
\* among verbs.
CallsFor(r, n, verbs) ==
    {i \in DOMAIN calls[r] : calls[r][i].verb \in verbs /\ CallName(r, i) = n}

Mutations == {"CreateRef", "UpdateRef"}

C24_Case(r) ==
    /\ mode = "single"
    /\ pc[r] # "off"
    /\ Reconciles(config[r])

\* C24: in any run each enabled rolling tag gets exactly one GetRef and at
\* most one CreateRef or UpdateRef, no call follows a failed call of the same
\* tag, and a run makes at most two probes and two mutations.
C24_OneProbeOneMutation ==
    \A r \in Runs :
        /\ Len(CallsOf(r, "GetRef")) <= 2
        /\ Len(CallsOf(r, "CreateRef")) + Len(CallsOf(r, "UpdateRef")) <= 2
        /\ C24_Case(r) =>
             \A k \in EnabledKinds(config[r]) :
                LET n == RefsTagsPrefix \o ExpectedTag(k, config[r].GitRef) IN
                /\ Cardinality(CallsFor(r, n, {"GetRef"})) <= 1
                /\ pc[r] = "done" => Cardinality(CallsFor(r, n, {"GetRef"})) = 1
                /\ Cardinality(CallsFor(r, n, Mutations)) <= 1
                /\ \A i \in CallsFor(r, n, Mutations \cup {"GetRef"}) :
                     ProbeFailed(calls[r][i]) \/ MutationFailed(calls[r][i]) =>
                        /\ \A j \in CallsFor(r, n, Mutations \cup {"GetRef"}) :
                             j <= i
                        /\ ~(pc[r] \in Mutations \cup {"GetRef"} /\ cur[r] = k)

\* The major tag's probe failed and the minor tag's create was rejected: the
\* run went on and returned after three calls.
C24_Witness ==
    /\ C24_Case(1)
    /\ pc[1] = "done"
    /\ Len(calls[1]) = 3
    /\ ProbeFailed(calls[1][1])
    /\ calls[1][3].verb = "CreateRef" /\ MutationFailed(calls[1][3])

C25_Case(r) ==
    /\ mode = "single"
    /\ pc[r] = "done"
    /\ Reconciles(config[r])
    /\ config[r].DryRun

\* C25: a dry run still probes: each enabled rolling tag gets its GetRef, and
\* a probe that fails with anything but 404 makes the run return a failure
\* for that tag, which wraps the probe's error, although nothing would have
\* been mutated.
C25_DryRunProbes ==
    \A r \in Runs :
        C25_Case(r) =>
            /\ \A k \in EnabledKinds(config[r]) :
                 LET n == RefsTagsPrefix \o ExpectedTag(k, config[r].GitRef)
                     p == CallsFor(r, n, {"GetRef"})
                 IN  /\ Cardinality(p) = 1
                     /\ \A i \in p :
                          ProbeFailed(calls[r][i]) =>
                             /\ result[r].kind = "join"
                             /\ \E j \in DOMAIN result[r].errs :
                                  /\ AttributedTo(result[r].errs[j], r, k)
                                  /\ result[r].errs[j][2].msg =
                                        "failed to check if tag exists"
            /\ \A i \in DOMAIN calls[r] : calls[r][i].verb = "GetRef"

\* A dry run whose major probe was answered 403 and whose minor probe found
\* the tag: it fails.
C25_Witness ==
    /\ C25_Case(1)
    /\ Len(calls[1]) = 2
    /\ calls[1][1].fault = "forbidden"
    /\ Succeeded(calls[1][2])
    /\ result[1].kind = "join"

\* The full names of the rolling refs run r has enabled.
EnabledRefs(r) ==
    {RefsTagsPrefix \o ExpectedTag(k, config[r].GitRef) :
        k \in EnabledKinds(config[r])}

\* The ref string a call of the given verb carries for the ref of full name
\* n: without "refs/" for GetRef and UpdateRef, in full for CreateRef.
RefAsSent(verb, n) ==
    IF verb = "CreateRef" THEN n ELSE SubSeq(n, Len(RefsSlash) + 1, Len(n))

C26_Case(r) == mode = "single" /\ pc[r] # "off"

\* C26: every call of a run addresses the ref of an enabled rolling tag,
\* tags/vX or tags/vX.Y for GetRef and UpdateRef and refs/tags/vX or
\* refs/tags/vX.Y for CreateRef, in the repository owner/name of the
\* configuration; a rolling tag that is switched off gets no call, and the
\* pushed tag and every ref but the enabled rolling tags stay as they were.
C26_OnlyEnabledRollingRefs ==
    \A r \in Runs :
        C26_Case(r) =>
            /\ ~Reconciles(config[r]) => calls[r] = <<>>
            /\ \A i \in DOMAIN calls[r] :
                 LET c == calls[r][i] IN
                 /\ CallName(r, i) \in EnabledRefs(r)
                 /\ c.ref = RefAsSent(c.verb, CallName(r, i))
                 /\ c.owner \o <<"/">> \o c.repo = config[r].GitHubRepo
            /\ \A n \in DOMAIN remote[r] \cup DOMAIN remote0[r] :
                 calls[r] = <<>> \/ n \notin EnabledRefs(r) =>
                    /\ n \in DOMAIN remote[r] \cap DOMAIN remote0[r]
                    /\ remote[r][n] = remote0[r][n]

\* Only the major switch is on: the major tag was moved to the commit, the
\* minor tag, at another commit, was not touched.
C26_Witness ==
    /\ C26_Case(1)
    /\ pc[1] = "done"
    /\ config[1].SyncMajor /\ ~config[1].SyncMinor
    /\ Len(calls[1]) = 2
    /\ Succeeded(calls[1][2])
    /\ MinorRef(1) \in DOMAIN remote[1]
    /\ remote[1][MinorRef(1)] # config[1].CommitSHA
    /\ remote[1][MajorRef(1)] = config[1].CommitSHA
    /\ remote[1][config[1].GitRef] = config[1].CommitSHA

C27_Case(r) ==
    /\ mode = "single"
    /\ pc[r] = "done"
    /\ config[r].GitHubRepo \notin ValidRepos

\* C27: Run validates in the order ref, tag, prerelease skip, repository, and
\* the first step that stops it decides: with a malformed repository, a
\* malformed ref or tag still gives the ref's or tag's error, a skipped
\* prerelease still returns nil with the repository never parsed, and only a
\* valid tag that is not skipped gives the repository's error.
C27_ValidationOrder ==
    \A r \in Runs :
        C27_Case(r) =>
            /\ calls[r] = <<>>
            /\ repoId[r] = NoRepo
            /\ config[r].GitRef \in NonTagRefs \cup NonSemVerRefs =>
                 result[r] = [kind |-> "error",
                              errs |-> <<ExpectedRefError(config[r].GitRef)>>]
            /\ config[r].GitRef \in NonTagRefs => semver[r] = NoSemVer
            /\ Skipped(config[r]) => result[r] = ReturnNil
            /\ config[r].GitRef \in ValidTagRefs /\ ~Skipped(config[r]) =>
                 /\ result[r].kind = "error"
                 /\ result[r].errs[1][1].msg = "invalid repository format"

\* A prerelease is skipped although the repository is owner/name/extra.
C27_Witness ==
    /\ C27_Case(1)
    /\ Skipped(config[1])
    /\ Len(config[1].GitHubRepo) = 5
    /\ result[1] = ReturnNil
    /\ semver[1].IsPrerelease

\* The create or update of the tag of kind k by run r succeeded.
Applied(r, k) ==
    \E i \in DOMAIN calls[r] :
        /\ calls[r][i].kind = k
        /\ calls[r][i].verb \in Mutations
        /\ Succeeded(calls[r][i])

\* Ref n is on remote w as it was when the runs started.
Untouched(w, n) ==
    IF n \in DOMAIN remote0[w]
    THEN n \in DOMAIN remote[w] /\ remote[w][n] = remote0[w][n]
    ELSE n \notin DOMAIN remote[w]

\* The tag of kind ok was reconciled and the tag of kind ko failed.
C28_Case(r, ok, ko) ==
    /\ mode = "single"
    /\ pc[r] = "done"
    /\ Reconciles(config[r])
    /\ config[r].SyncMajor /\ config[r].SyncMinor
    /\ ok # ko
    /\ Applied(r, ok)
    /\ Failed(r, ko)

\* C28: with both switches on, when one tag's create or update succeeds and
\* the other tag's reconciliation fails, Run returns a failure, the first tag
\* stays at the configured commit and the other tag is as the remote had it.
C28_NoRollback ==
    \A r \in Runs : \A ok, ko \in {"major", "minor"} :
        C28_Case(r, ok, ko) =>
            LET nok == RefsTagsPrefix \o ExpectedTag(ok, config[r].GitRef)
                nko == RefsTagsPrefix \o ExpectedTag(ko, config[r].GitRef)
            IN  /\ result[r].kind = "join"
                /\ Len(result[r].errs) = 1
                /\ AttributedTo(result[r].errs[1], r, ko)
                /\ nok \in DOMAIN remote[r]
                /\ remote[r][nok] = config[r].CommitSHA
                /\ Untouched(r, nko)

\* The major tag was created, then the minor tag's update failed: the major
\* tag is there, the minor tag is where it was, at another commit.
C28_Witness ==
    /\ C28_Case(1, "major", "minor")
    /\ MajorRef(1) \notin DOMAIN remote0[1]
    /\ remote[1][MajorRef(1)] = config[1].CommitSHA
    /\ Len(calls[1]) = 4
    /\ calls[1][4].verb = "UpdateRef"
    /\ MinorRef(1) \in DOMAIN remote[1]
    /\ remote[1][MinorRef(1)] # config[1].CommitSHA

\* The configuration of run r as main would hold it, with a token.
WithToken(r) == [GitHubToken |-> <<"t">>] @@ config[r]

C29_Case(r) ==
    /\ mode = "single"
    /\ pc[r] = "done"
    /\ config[r].GitRef \in ValidTagRefs
    /\ config[r].GitHubRepo \in ValidRepos
    /\ ~config[r].SyncMajor /\ ~config[r].SyncMinor

\* C29: Run itself does not ask for a switch to be on: called with both
\* switches off on a valid ref and repository it makes no remote call and
\* returns nil, while Config.Validate rejects that configuration.
C29_RunDoesNotCheckSwitches ==
    \A r \in Runs :
        C29_Case(r) =>
            /\ calls[r] = <<>>
            /\ result[r] = ReturnNil
            /\ remote[r] = remote0[r]
            /\ Validate(WithToken(r)) # Nil

\* A stable tag, both switches off: Run has returned nil.
C29_Witness ==
    /\ C29_Case(1)
    /\ config[1].GitRef = RefV123
    /\ ~config[1].DryRun
    /\ result[1] = ReturnNil
    /\ semver[1].Full = <<"v", "1", ".", "2", ".", "3">>

\* Run r has returned, with one outcome: nil, or an error.
Returned(r) ==
    /\ pc[r] = "done"
    /\ \/ result[r] = ReturnNil
       \/ result[r].kind \in {"error", "join"} /\ result[r].errs # <<>>

C30_Safety ==
    mode = "single" =>
        /\ CanGoOn
        /\ \A r \in Runs :
             /\ pc[r] = "done" => Returned(r)
             /\ pc[r] # "done" => result[r] = Running

\* The outcome of a run, once there, does not change.
C30_OneOutcome ==
    \A r \in Runs : result[r] # Running => result'[r] = result[r]

\* C30: every run terminates with one outcome, provided its remote calls
\* return: whatever the input and the answers of the remote, a run that has
\* not returned can take its next step, each step uses up one of at most six
\* steps (there is no loop and no retry), the run ends returned with nil or
\* with an error, and that outcome stays.
C30_Terminates == []C30_Safety /\ [][Progress /\ C30_OneOutcome]_vars

\* The longest run: four calls, both mutations failed, two errors joined.
C30_Witness ==
    /\ mode = "single"
    /\ Returned(1)
    /\ Len(calls[1]) = 4
    /\ StepsLeft(1) = 0
    /\ result[1].kind = "join"
    /\ Len(result[1].errs) = 2

=============================================================================
